---- MODULE Spec2Model ----
(***************************************************************************)
(* Model of src/index.js: DeferredPromise, Barrier and PromiseSynch, three *)
(* utilities over the runtime's Promise.  The runtime is modelled by its   *)
(* promise heap and its job (microtask) queue: a promise is a heap cell    *)
(* with a state, a value, its pending reactions and the alreadyResolved    *)
(* flag of its resolving functions; a continuation never runs inside the   *)
(* call that attaches or triggers it, it is a job appended to the queue    *)
(* and run by RunJob, first in first out.                                  *)
(*                                                                         *)
(* A call of the library (an action named after the method) is one atomic  *)
(* step, as a synchronous JavaScript call is; calls may happen between any *)
(* two jobs, since the caller can run code in continuations of its own.    *)
(* Array positions are 1-based here: slot i of the source is position i+1. *)
(***************************************************************************)
EXTENDS Integers, Sequences, FiniteSets, TLC

VARIABLES
    heap,             \* the runtime's promises: Seq of [st, val, rx, res]
    queue,            \* the runtime's job queue: Seq of jobs
    aggs,             \* states of Promise.all / race / allSettled calls
    seen,             \* log of the caller's continuations that have run
    order,            \* ids of the Barrier's promises in the order they settled
    promise,          \* DeferredPromise.#promise (heap id, 0: none)
    attached,         \* number of continuations attached to the DeferredPromise
    firstCall,        \* first resolve/reject call made on the DeferredPromise
    length,           \* Barrier.length, a JavaScript value (Unset: not constructed)
    promises,         \* Barrier.#promises: Seq of heap ids
    resolveFunctions, \* Barrier.#resolveFunctions: Seq of heap ids (whose resolve it is)
    given,            \* per slot, the first argument passed to Barrier.resolve
    index,            \* PromiseSynch.#index
    cache,            \* PromiseSynch.#promises: Seq of [key, p], in insertion order
    futures,          \* the futures passed to add, by ticket (position ticket+1)
    calls,            \* the allSettled calls made: Seq of [agg, ret, ons]
    ncalls,           \* number of calls the caller has made so far
    last              \* the Barrier call the last step made, if any: [op, arg, raised]

vars == <<heap, queue, aggs, seen, order, promise, attached, firstCall,
          length, promises, resolveFunctions, given, index, cache, futures, calls,
          ncalls, last>>

deferredVars == <<promise, attached, firstCall>>
barrierVars == <<length, promises, resolveFunctions, given>>
synchVars == <<index, futures, calls>>

(***************************************************************************)
(* Bounds of the model.                                                    *)
(***************************************************************************)
MaxDeferredCalls == 5 \* calls made on a DeferredPromise
MaxLength == 2        \* largest Barrier length constructed
MaxBarrierCalls == 4  \* calls made on a Barrier after its construction
MaxSynchCalls == 3    \* calls made on a PromiseSynch, and on the futures added

(***************************************************************************)
(* JavaScript values, all of one record shape so that any two compare.     *)
(***************************************************************************)
Undefined == [t |-> "undefined", n |-> 0, a |-> <<>>]
Unset == [t |-> "unset", n |-> 0, a |-> <<>>]
Prim(n) == [t |-> "value", n |-> n, a |-> <<>>]
Err(n) == [t |-> "error", n |-> n, a |-> <<>>]
Bool(b) == [t |-> "boolean", n |-> IF b THEN 1 ELSE 0, a |-> <<>>]
Ref(p) == [t |-> "promise", n |-> p, a |-> <<>>]
Array(s) == [t |-> "array", n |-> Len(s), a |-> s]
Outcome(st, v) == [t |-> st, n |-> 0, a |-> <<v>>]

IsThenable(x) == x.t = "promise"

\* what a caller may pass where a number is expected: a number, the decimal
\* string of an integer ("1"), a string that is no number ("abc"), a
\* boolean, an object ({}), or nothing (Undefined)
Num(n) == [t |-> "number", n |-> n, a |-> <<>>]
NumStr(n) == [t |-> "string", n |-> n, a |-> <<>>]
Text == [t |-> "text", n |-> 0, a |-> <<>>]
Obj == [t |-> "object", n |-> 0, a |-> <<>>]

\* !x is true
IsFalsy(x) ==
    \/ x.t = "undefined"
    \/ x.t = "number" /\ x.n = 0
    \/ x.t = "boolean" /\ x.n = 0
\* ToNumber(x) is a number (not NaN), and then x.n is that number
HasNumber(x) == x.t \in {"number", "string", "boolean"}
\* x < 0
LessThanZero(x) == HasNumber(x) /\ x.n < 0
\* x !== 0
IsNotZero(x) == ~(x.t = "number" /\ x.n = 0)

(***************************************************************************)
(* The runtime.  A world is the part of the state a job can change.        *)
(***************************************************************************)
World == [heap |-> heap, queue |-> queue, aggs |-> aggs, seen |-> seen,
          order |-> order, cache |-> cache, slots |-> promises]

Commit(w) ==
    /\ heap' = w.heap
    /\ queue' = w.queue
    /\ aggs' = w.aggs
    /\ seen' = w.seen
    /\ order' = w.order
    /\ cache' = w.cache

Handler(kind, a, b, target, st, val) ==
    [kind |-> kind, a |-> a, b |-> b, target |-> target, st |-> st, val |-> val]
Job(type, h, st, val) == [type |-> type, h |-> h, st |-> st, val |-> val]

\* new Promise(executor) / Promise.resolve(v) / Promise.reject(e): a fresh cell
NewPromise(w, st, val) ==
    [w EXCEPT !.heap = Append(@, [st |-> st, val |-> val, rx |-> <<>>,
                                   res |-> st # "pending"])]

Enqueue(w, job) == [w EXCEPT !.queue = Append(@, job)]

\* FulfillPromise / RejectPromise with TriggerPromiseReactions
SettlePromise(w, p, st, val) ==
    LET rs == w.heap[p].rx
        jobs == [i \in 1..Len(rs) |-> Job("reaction", rs[i], st, val)]
    IN [w EXCEPT !.heap[p] = [st |-> st, val |-> val, rx |-> <<>>, res |-> TRUE],
                 !.queue = @ \o jobs,
                 !.order = IF \E i \in 1..Len(w.slots) : w.slots[i] = p
                           THEN Append(@, p) ELSE @]

\* the resolve function handed to an executor, guarded by alreadyResolved
ResolveFunctionUnguarded(w, p, x) ==
    LET w1 == [w EXCEPT !.heap[p].res = TRUE]
    IN IF IsThenable(x)
       THEN Enqueue(w1, Job("thenable", Handler("adopt", x.n, 0, p, "", Undefined),
                            "", Undefined))
       ELSE SettlePromise(w1, p, "fulfilled", x)

\* a mistaken guard: the promise's state is tested, not alreadyResolved
ResolveFunctionIfPending(w, p, x) ==
    IF w.heap[p].st # "pending" THEN w
    ELSE ResolveFunctionUnguarded(w, p, x)

ResolveFunction(w, p, x) ==
    IF w.heap[p].res THEN w
    ELSE LET w1 == [w EXCEPT !.heap[p].res = TRUE]
         IN IF IsThenable(x)
            THEN Enqueue(w1, Job("thenable",
                                 Handler("adopt", x.n, 0, p, "", Undefined),
                                 "", Undefined))
            ELSE SettlePromise(w1, p, "fulfilled", x)

\* the reject function handed to an executor
RejectFunction(w, p, e) ==
    IF w.heap[p].res THEN w ELSE SettlePromise(w, p, "rejected", e)

\* a continuation of the caller: it logs what it was given
RunUser(w, h, st, val) ==
    [w EXCEPT !.seen = Append(@, [k |-> h.a, st |-> st, val |-> val])]

PerformPromiseThenInline(w, p, h) ==
    IF w.heap[p].st = "pending"
    THEN [w EXCEPT !.heap[p].rx = Append(@, h)]
    ELSE IF h.kind = "user"
         THEN RunUser(w, h, w.heap[p].st, w.heap[p].val)
         ELSE Enqueue(w, Job("reaction", h, w.heap[p].st, w.heap[p].val))

\* promise.then(...): PerformPromiseThen
PerformPromiseThen(w, p, h) ==
    IF w.heap[p].st = "pending"
    THEN [w EXCEPT !.heap[p].rx = Append(@, h)]
    ELSE Enqueue(w, Job("reaction", h, w.heap[p].st, w.heap[p].val))

(***************************************************************************)
(* Promise.all, Promise.race, Promise.allSettled over a list ps of         *)
(* promises.  An aggregate keeps the result promise p, the values array    *)
(* and remainingElementsCount; snap and keys are history, written once at  *)
(* the call: the state each input had when the call iterated it, and, for  *)
(* allSettled, the tickets whose entries were iterated.                    *)
(***************************************************************************)
RECURSIVE ThenEach(_, _, _, _, _)
ThenEach(w, ps, i, kind, g) ==
    IF i > Len(ps) THEN w
    ELSE ThenEach(PerformPromiseThen(w, ps[i],
                                     Handler(kind, g, i, 0, "", Undefined)),
                  ps, i + 1, kind, g)

RECURSIVE ThenEachDown(_, _, _, _, _)
ThenEachDown(w, ps, i, kind, g) ==
    IF i < 1 THEN w
    ELSE ThenEachDown(PerformPromiseThen(w, ps[i],
                                         Handler(kind, g, i, 0, "", Undefined)),
                      ps, i - 1, kind, g)

NewAggregate(w, kind, ps, keys, remaining) ==
    LET w1 == NewPromise(w, "pending", Undefined)
    IN [w1 EXCEPT !.aggs = Append(@,
            [kind |-> kind, p |-> Len(w1.heap), n |-> Len(ps),
             vals |-> [i \in 1..Len(ps) |-> Undefined],
             remaining |-> remaining,
             snap |-> [i \in 1..Len(ps) |-> w.heap[ps[i]].st],
             keys |-> keys])]

PromiseAllReversed(w, ps) ==
    LET w1 == NewAggregate(w, "all", ps, <<>>, Len(ps))
        g == Len(w1.aggs)
        w2 == ThenEachDown(w1, ps, Len(ps), "allElement", g)
    IN IF Len(ps) = 0 THEN ResolveFunction(w2, w1.aggs[g].p, Array(<<>>)) ELSE w2

\* a mistaken all: nothing resolves the promise when there is no element
PromiseAllNoEmptyCase(w, ps) ==
    LET w1 == NewAggregate(w, "all", ps, <<>>, Len(ps))
    IN ThenEach(w1, ps, 1, "allElement", Len(w1.aggs))

PromiseAll(w, ps) ==
    LET w1 == NewAggregate(w, "all", ps, <<>>, Len(ps))
        g == Len(w1.aggs)
        w2 == ThenEach(w1, ps, 1, "allElement", g)
    IN IF Len(ps) = 0 THEN ResolveFunction(w2, w1.aggs[g].p, Array(<<>>)) ELSE w2

PromiseRaceReversed(w, ps) ==
    LET w1 == NewAggregate(w, "race", ps, <<>>, 0)
    IN ThenEachDown(w1, ps, Len(ps), "raceElement", Len(w1.aggs))

PromiseRace(w, ps) ==
    LET w1 == NewAggregate(w, "race", ps, <<>>, 0)
    IN ThenEach(w1, ps, 1, "raceElement", Len(w1.aggs))

PromiseAllSettledOffByOne(w, ps, keys) ==
    LET w1 == NewAggregate(w, "allSettled", ps, keys, Len(ps) + 1)
        g == Len(w1.aggs)
    IN ThenEach(w1, ps, 1, "allSettledElement", g)

PromiseAllSettled(w, ps, keys) ==
    LET w1 == NewAggregate(w, "allSettled", ps, keys, Len(ps))
        g == Len(w1.aggs)
        w2 == ThenEach(w1, ps, 1, "allSettledElement", g)
    IN IF Len(ps) = 0 THEN ResolveFunction(w2, w1.aggs[g].p, Array(<<>>)) ELSE w2

(***************************************************************************)
(* What a reaction job does, by the kind of its handler.                   *)
(***************************************************************************)
\* a mistaken resolveElement: the values are kept in the order they arrive
RunAllElementInArrivalOrder(w, h, st, val) ==
    LET g == h.a
        p == w.aggs[g].p
    IN IF st = "rejected" THEN RejectFunction(w, p, val)
       ELSE LET w1 == [w EXCEPT
                         !.aggs[g].vals[w.aggs[g].n - w.aggs[g].remaining + 1] = val,
                         !.aggs[g].remaining = @ - 1]
            IN IF w1.aggs[g].remaining = 0
               THEN ResolveFunction(w1, p, Array(w1.aggs[g].vals))
               ELSE w1

\* Promise.all: resolveElement of position h.b, or the capability's reject
RunAllElement(w, h, st, val) ==
    LET g == h.a
        p == w.aggs[g].p
    IN IF st = "rejected" THEN RejectFunction(w, p, val)
       ELSE LET w1 == [w EXCEPT !.aggs[g].vals[h.b] = val,
                                !.aggs[g].remaining = @ - 1]
            IN IF w1.aggs[g].remaining = 0
               THEN ResolveFunction(w1, p, Array(w1.aggs[g].vals))
               ELSE w1

\* Promise.race: the capability's resolve or reject
RunRaceElement(w, h, st, val) ==
    IF st = "rejected" THEN RejectFunction(w, w.aggs[h.a].p, val)
    ELSE ResolveFunction(w, w.aggs[h.a].p, val)

\* Promise.allSettled: the outcome record of position h.b
RunAllSettledElement(w, h, st, val) ==
    LET g == h.a
        w1 == [w EXCEPT !.aggs[g].vals[h.b] = Outcome(st, val),
                        !.aggs[g].remaining = @ - 1]
    IN IF w1.aggs[g].remaining = 0
       THEN ResolveFunction(w1, w1.aggs[g].p, Array(w1.aggs[g].vals))
       ELSE w1

HasKey(c, key) == \E i \in 1..Len(c) : c[i].key = key
MapClear(c, key) == <<>>
MapDeleteNothing(c, key) == c
MapDelete(c, key) == SelectSeq(c, LAMBDA e : e.key # key)
MapSet(c, key, p) ==
    IF HasKey(c, key)
    THEN [i \in 1..Len(c) |-> IF c[i].key = key THEN [key |-> key, p |-> p] ELSE c[i]]
    ELSE Append(c, [key |-> key, p |-> p])

\* a mistaken finally: the derived promise takes the callback's result
RunFinallyAsThen(w, h, st, val) ==
    LET w1 == [w EXCEPT !.cache = MapDelete(@, h.a)]
    IN ResolveFunction(w1, h.target, Bool(HasKey(w.cache, h.a)))

\* promise.finally(() => this.#promises.delete(index)): thenFinally and
\* catchFinally call the callback, then pass the outcome on through
\* PromiseResolve(result).then(valueThunk or thrower)
RunFinally(w, h, st, val) ==
    LET w1 == [w EXCEPT !.cache = MapDelete(@, h.a)]
        w2 == NewPromise(w1, "fulfilled", Bool(HasKey(w.cache, h.a)))
        p1 == Len(w2.heap)
        w3 == NewPromise(w2, "pending", Undefined)
        p2 == Len(w3.heap)
        w4 == PerformPromiseThen(w3, p1, Handler("thunk", 0, 0, p2, st, val))
    IN ResolveFunction(w4, h.target, Ref(p2))

\* valueThunk returns the stored value, thrower throws the stored reason
RunThunk(w, h, st, val) ==
    IF h.st = "rejected" THEN RejectFunction(w, h.target, h.val)
    ELSE ResolveFunction(w, h.target, h.val)

\* the resolving functions NewPromiseResolveThenableJob passed to thenable.then
RunAdopt(w, h, st, val) == SettlePromise(w, h.target, st, val)

\* promise.then(onsettled): onsettled is called with the outcomes; what it
\* does (h.st) is the caller's choice; without an onRejected a rejection
\* passes through
OnSettledKinds == {"return", "throw", "returnRejected"}
OnSettledResult(kind) ==
    CASE kind = "return" -> [st |-> "fulfilled", val |-> Prim(100)]
      [] kind = "throw" -> [st |-> "rejected", val |-> Err(101)]
      [] kind = "returnRejected" -> [st |-> "rejected", val |-> Err(102)]

RunOnSettled(w, h, st, val) ==
    IF st = "rejected" THEN RejectFunction(w, h.target, val)
    ELSE LET w1 == [w EXCEPT !.seen = Append(@, [k |-> h.b, st |-> st, val |-> val])]
             r == OnSettledResult(h.st)
         IN CASE h.st = "return" -> ResolveFunction(w1, h.target, r.val)
              [] h.st = "throw" -> RejectFunction(w1, h.target, r.val)
              [] OTHER ->
                   LET w2 == NewPromise(w1, r.st, r.val)
                   IN ResolveFunction(w2, h.target, Ref(Len(w2.heap)))

RunReaction(w, h, st, val) ==
    CASE h.kind = "allElement" -> RunAllElement(w, h, st, val)
      [] h.kind = "raceElement" -> RunRaceElement(w, h, st, val)
      [] h.kind = "allSettledElement" -> RunAllSettledElement(w, h, st, val)
      [] h.kind = "finally" -> RunFinally(w, h, st, val)
      [] h.kind = "thunk" -> RunThunk(w, h, st, val)
      [] h.kind = "adopt" -> RunAdopt(w, h, st, val)
      [] h.kind = "user" -> RunUser(w, h, st, val)
      [] h.kind = "onsettled" -> RunOnSettled(w, h, st, val)

\* NewPromiseResolveThenableJob: thenable.then(resolve, reject)
RunThenableJob(w, h) == PerformPromiseThen(w, h.a, h)

NoCall == [op |-> "none", arg |-> Undefined, raised |-> "none"]

\* one turn of the scheduler: the oldest job runs to completion
RunJob ==
    /\ queue # <<>>
    /\ LET j == Head(queue)
           w == [World EXCEPT !.queue = Tail(queue)]
       IN Commit(IF j.type = "thenable" THEN RunThenableJob(w, j.h)
                 ELSE RunReaction(w, j.h, j.st, j.val))
    /\ last' = NoCall
    /\ UNCHANGED <<deferredVars, barrierVars, synchVars, ncalls>>

Called == ncalls' = ncalls + 1 /\ last' = NoCall
CalledBarrier(op, arg, raised) ==
    ncalls' = ncalls + 1 /\ last' = [op |-> op, arg |-> arg, raised |-> raised]

NoDeferred == promise = 0 /\ attached = 0 /\ firstCall = [st |-> "none", val |-> Undefined, before |-> 0]
NoBarrier == length = Unset /\ promises = <<>> /\ resolveFunctions = <<>> /\ given = <<>>
NoSynch == index = 0 /\ futures = <<>> /\ calls = <<>>
EmptyRuntime ==
    /\ heap = <<>> /\ queue = <<>> /\ aggs = <<>> /\ seen = <<>> /\ order = <<>>
    /\ cache = <<>> /\ ncalls = 0 /\ last = NoCall

\* what the caller passes where a value goes: a plain value, or a promise
\* of its own that is already rejected (Promise.reject(e)).  The library
\* never looks into a value, so each call passes a value of its own, named
\* after the call: where a value that is delivered came from can be told.
PlainValue == Prim(ncalls + 1)
Error == Err(ncalls + 1)
Arguments == {PlainValue, Outcome("rejected", Error)}
IsPromiseArgument(x) == x.t = "rejected"

\* the world and the JavaScript value of an argument (a promise argument
\* is allocated by the caller just before the call)
PassArgument(w, x) ==
    IF IsPromiseArgument(x)
    THEN LET w1 == NewPromise(w, "rejected", x.a[1])
         IN [w |-> w1, v |-> Ref(Len(w1.heap))]
    ELSE [w |-> w, v |-> x]

(***************************************************************************)
(* DeferredPromise                                                         *)
(***************************************************************************)
PendingCell == [st |-> "pending", val |-> Undefined, rx |-> <<>>, res |-> FALSE]

\* constructor(): new Promise((resolve, reject) => ...), then/catch/finally bound
DeferredInit ==
    /\ heap = <<PendingCell>> /\ promise = 1
    /\ queue = <<>> /\ aggs = <<>> /\ seen = <<>> /\ order = <<>> /\ cache = <<>>
    /\ ncalls = 0 /\ last = NoCall
    /\ attached = 0 /\ firstCall = [st |-> "none", val |-> Undefined, before |-> 0]
    /\ NoBarrier /\ NoSynch

NoteFirstCall(st, x) ==
    firstCall' = IF firstCall.st = "none"
                 THEN [st |-> st, val |-> x, before |-> attached]
                 ELSE firstCall

\* this.resolve(x)
DeferredResolve(x) ==
    /\ ncalls < MaxDeferredCalls
    /\ LET arg == PassArgument(World, x)
       IN Commit(ResolveFunction(arg.w, promise, arg.v))
    /\ NoteFirstCall(IF IsPromiseArgument(x) THEN "thenable" ELSE "fulfilled", x)
    /\ Called
    /\ UNCHANGED <<promise, attached, barrierVars, synchVars>>

\* this.reject(e)
DeferredReject(e) ==
    /\ ncalls < MaxDeferredCalls
    /\ Commit(RejectFunction(World, promise, e))
    /\ NoteFirstCall("rejected", e)
    /\ Called
    /\ UNCHANGED <<promise, attached, barrierVars, synchVars>>

\* this.then(f, f) with a continuation f of the caller, which is given the
\* value or the error: the (attached + 1)-th one
DeferredThen ==
    /\ ncalls < MaxDeferredCalls
    /\ Commit(PerformPromiseThen(World, promise,
                                 Handler("user", attached + 1, 0, 0, "", Undefined)))
    /\ attached' = attached + 1
    /\ Called
    /\ UNCHANGED <<promise, firstCall, barrierVars, synchVars>>

DeferredNext ==
    \/ \E x \in Arguments : DeferredResolve(x)
    \/ DeferredReject(Error)
    \/ DeferredThen
    \/ RunJob

SpecDeferred == DeferredInit /\ [][DeferredNext]_vars

(***************************************************************************)
(* Barrier                                                                 *)
(***************************************************************************)
BarrierInit ==
    /\ EmptyRuntime /\ NoDeferred /\ NoBarrier /\ NoSynch

\* the lengths passed to the constructor: numbers from -1, and the values
\* that are no numbers
LengthArguments ==
    {Num(n) : n \in -1..MaxLength} \cup {Undefined, Text, Bool(TRUE), Obj}

InvalidLengthWithoutZero(len) == IsFalsy(len) \/ LessThanZero(len)

\* length !== 0 && !length || length < 0
InvalidLength(len) == (IsNotZero(len) /\ IsFalsy(len)) \/ LessThanZero(len)

ToLengthPlusOne(x) == IF HasNumber(x) /\ x.n > 0 THEN x.n + 1 ELSE 1

\* Array.from({length}, ...): the number of elements made, ToLength(length)
ToLength(x) == IF HasNumber(x) /\ x.n > 0 THEN x.n ELSE 0

\* constructor(length): a RangeError, or the length kept and as many
\* promises as Array.from makes, their resolve functions kept
BarrierConstructor(len) ==
    /\ length = Unset
    /\ IF InvalidLength(len)
       THEN /\ last' = [op |-> "constructor", arg |-> len,
                        raised |-> "RangeError: Invalid length"]
            /\ UNCHANGED <<heap, barrierVars>>
       ELSE /\ length' = len
            /\ heap' = heap \o [i \in 1..ToLength(len) |-> PendingCell]
            /\ promises' = [i \in 1..ToLength(len) |-> Len(heap) + i]
            /\ resolveFunctions' = [i \in 1..ToLength(len) |-> Len(heap) + i]
            /\ given' = [i \in 1..ToLength(len) |-> Unset]
            /\ last' = [op |-> "constructor", arg |-> len, raised |-> "none"]
    /\ UNCHANGED <<queue, aggs, seen, order, cache, ncalls, deferredVars, synchVars>>

\* the indexes passed to resolve: numbers from -1 to past the end, and the
\* values that are no numbers
IndexArguments ==
    {Num(n) : n \in -1..Len(resolveFunctions)}
    \cup {Undefined, Text, NumStr(0)}

\* index !== 0 && !index || index < 0
InvalidIndex(idx) == (IsNotZero(idx) /\ IsFalsy(idx)) \/ LessThanZero(idx)

\* fns[index]: the position of the element the property key of index names,
\* 0 when there is none (undefined); "0" names the same element as 0
ElementAt(fns, idx) ==
    IF idx.t \in {"number", "string"} /\ idx.n >= 0 /\ idx.n < Len(fns)
    THEN idx.n + 1
    ELSE 0

ResolveCallWrapping(w, fns, idx, v) ==
    IF InvalidIndex(idx) \/ Len(fns) = 0
    THEN [w |-> w, raised |-> "RangeError: Invalid index"]
    ELSE [w |-> ResolveFunction(w, fns[(idx.n % Len(fns)) + 1], v),
          raised |-> "none"]

\* resolve(index, value): a RangeError, or this.#resolveFunctions[index](value),
\* which is a TypeError (thrown by the call) when there is no such function
ResolveCall(w, fns, idx, v) ==
    IF InvalidIndex(idx)
    THEN [w |-> w, raised |-> "RangeError: Invalid index"]
    ELSE IF ElementAt(fns, idx) = 0
         THEN [w |-> w, raised |-> "TypeError"]
         ELSE [w |-> ResolveFunction(w, fns[ElementAt(fns, idx)], v),
               raised |-> "none"]

BarrierResolve(idx, x) ==
    /\ length # Unset
    /\ ncalls < MaxBarrierCalls
    /\ LET arg == PassArgument(World, x)
           r == ResolveCall(arg.w, resolveFunctions, idx, arg.v)
           i == ElementAt(resolveFunctions, idx)
       IN /\ Commit(r.w)
          /\ CalledBarrier("resolve", idx, r.raised)
          /\ given' = IF r.raised = "none" /\ i # 0 /\ given[i] = Unset
                      THEN [given EXCEPT ![i] = x]
                      ELSE given
    /\ UNCHANGED <<length, promises, resolveFunctions, deferredVars, synchVars>>

\* all()
BarrierAll ==
    /\ length # Unset
    /\ ncalls < MaxBarrierCalls
    /\ Commit(PromiseAll(World, promises))
    /\ CalledBarrier("all", Undefined, "none")
    /\ UNCHANGED <<barrierVars, deferredVars, synchVars>>

\* race()
BarrierRace ==
    /\ length # Unset
    /\ ncalls < MaxBarrierCalls
    /\ Commit(PromiseRace(World, promises))
    /\ CalledBarrier("race", Undefined, "none")
    /\ UNCHANGED <<barrierVars, deferredVars, synchVars>>

BarrierNext ==
    \/ \E len \in LengthArguments : BarrierConstructor(len)
    \/ \E idx \in IndexArguments, x \in Arguments : BarrierResolve(idx, x)
    \/ BarrierAll
    \/ BarrierRace
    \/ RunJob

SpecBarrier == BarrierInit /\ [][BarrierNext]_vars

(***************************************************************************)
(* PromiseSynch                                                            *)
(***************************************************************************)
SynchInit ==
    /\ EmptyRuntime /\ NoDeferred /\ NoBarrier /\ NoSynch

\* the futures a caller passes to add: pending, or already settled
FutureArguments ==
    {[st |-> "pending", val |-> Undefined],
     [st |-> "fulfilled", val |-> PlainValue],
     [st |-> "rejected", val |-> Error]}

\* a mistaken add: the eviction reads #index when it runs, after the increment
AddCallStaleIndex(w, idx, f) ==
    LET w1 == NewPromise(w, "pending", Undefined)
        d == Len(w1.heap)
        w2 == PerformPromiseThen(w1, f, Handler("finally", idx + 1, 0, d, "", Undefined))
    IN [w2 EXCEPT !.cache = MapSet(@, idx, d)]

\* a mistaken add: the ticket is the size of the map, not the counter
AddCallTicketFromSize(w, idx, f) ==
    LET w1 == NewPromise(w, "pending", Undefined)
        d == Len(w1.heap)
        w2 == PerformPromiseThen(w1, f, Handler("finally", Len(w.cache), 0, d, "",
                                                Undefined))
    IN [w2 EXCEPT !.cache = MapSet(@, Len(w.cache), d)]

\* a mistaken add: the eviction of a settled future runs inside finally,
\* before the entry is stored
AddCallEvictsInline(w, idx, f) ==
    LET w1 == NewPromise(w, "pending", Undefined)
        d == Len(w1.heap)
        w2 == IF w1.heap[f].st = "pending"
              THEN PerformPromiseThen(w1, f, Handler("finally", idx, 0, d, "",
                                                     Undefined))
              ELSE [w1 EXCEPT !.cache = MapDelete(@, idx)]
    IN [w2 EXCEPT !.cache = MapSet(@, idx, d)]

\* add(promise), promise being the future f: the ticket is taken, the
\* eviction is attached with finally, the derived promise is stored
AddCall(w, idx, f) ==
    LET w1 == NewPromise(w, "pending", Undefined)
        d == Len(w1.heap)
        w2 == PerformPromiseThen(w1, f, Handler("finally", idx, 0, d, "", Undefined))
    IN [w2 EXCEPT !.cache = MapSet(@, idx, d)]

Add(f0) ==
    /\ ncalls < MaxSynchCalls
    /\ LET w1 == NewPromise(World, f0.st, f0.val)
           f == Len(w1.heap)
       IN /\ Commit(AddCall(w1, index, f))
          /\ futures' = Append(futures, f)
    /\ index' = index + 1
    /\ Called
    /\ UNCHANGED <<calls, deferredVars, barrierVars>>

\* the caller settles a future it passed to add
SettleFuture(k, st, val) ==
    /\ ncalls < MaxSynchCalls
    /\ k \in 1..Len(futures)
    /\ ~heap[futures[k]].res
    /\ Commit(IF st = "rejected" THEN RejectFunction(World, futures[k], val)
              ELSE ResolveFunction(World, futures[k], val))
    /\ Called
    /\ UNCHANGED <<synchVars, deferredVars, barrierVars>>

CacheValues(c) == [i \in 1..Len(c) |-> c[i].p]
CacheKeys(c) == [i \in 1..Len(c) |-> c[i].key]

AllSettledIgnoringOnSettled(w, ons) ==
    LET w1 == PromiseAllSettled(w, CacheValues(w.cache), CacheKeys(w.cache))
        g == Len(w1.aggs)
    IN [w |-> w1, agg |-> g, ret |-> w1.aggs[g].p]

\* allSettled(onsettled): ons is "none" when no function is passed
AllSettledCall(w, ons) ==
    LET w1 == PromiseAllSettled(w, CacheValues(w.cache), CacheKeys(w.cache))
        g == Len(w1.aggs)
        w2 == NewPromise(w1, "pending", Undefined)
        t == Len(w2.heap)
    IN IF ons = "none"
       THEN [w |-> w1, agg |-> g, ret |-> w1.aggs[g].p]
       ELSE [w |-> PerformPromiseThen(w2, w1.aggs[g].p,
                                      Handler("onsettled", g, g, t, ons, Undefined)),
             agg |-> g, ret |-> t]

AllSettled(ons) ==
    /\ ncalls < MaxSynchCalls
    /\ LET r == AllSettledCall(World, ons)
       IN /\ Commit(r.w)
          /\ calls' = Append(calls, [agg |-> r.agg, ret |-> r.ret, ons |-> ons])
    /\ Called
    /\ UNCHANGED <<index, futures, deferredVars, barrierVars>>

SynchNext ==
    \/ \E f0 \in FutureArguments : Add(f0)
    \/ \E k \in 1..Len(futures) : SettleFuture(k, "fulfilled", PlainValue)
    \/ \E k \in 1..Len(futures) : SettleFuture(k, "rejected", Error)
    \/ \E ons \in {"none"} \cup OnSettledKinds : AllSettled(ons)
    \/ RunJob

SpecSynch == SynchInit /\ [][SynchNext]_vars

\* the scheduler runs every job that is queued
SpecSynchFair == SpecSynch /\ WF_vars(RunJob)

(***************************************************************************)
(* Properties of DeferredPromise (under SpecDeferred).                     *)
(***************************************************************************)
Continuations == {seen[i].k : i \in 1..Len(seen)}

\* C9: settlement of a DeferredPromise is one-shot: the first call among
\* resolve(v), v a plain value, and reject(e) fixes the outcome; later calls
\* leave it unchanged; every continuation, attached before or after, runs
\* once and observes exactly that value or error.
DeferredSettlesOnce ==
    firstCall.st \in {"fulfilled", "rejected"} =>
        /\ heap[promise].st = firstCall.st
        /\ heap[promise].val = firstCall.val
        /\ \A i \in 1..Len(seen) :
               seen[i].st = firstCall.st /\ seen[i].val = firstCall.val
        /\ \A i, j \in 1..Len(seen) : seen[i].k = seen[j].k => i = j
        /\ (queue = <<>> => Continuations = 1..attached)

\* two continuations, one attached before the first call and one after, have
\* run, and a second resolve or reject call was made
DeferredSettlesOnceWitness ==
    /\ firstCall.st = "fulfilled"
    /\ firstCall.before = 1 /\ attached = 2 /\ Len(seen) = 2
    /\ ncalls - attached >= 2

\* C10: a continuation of a DeferredPromise never runs inside resolve,
\* reject or the call that attaches it: the step that runs it makes no call,
\* it is the scheduler running the job queued for it, and the continuation
\* receives the value the promise was settled with.
DeferredContinuationRunsLater ==
    [][seen' # seen =>
          /\ ncalls' = ncalls
          /\ queue # <<>>
          /\ Head(queue).h.kind = "user"
          /\ heap[promise].st # "pending"
          /\ seen' = Append(seen, [k |-> Head(queue).h.a,
                                   st |-> heap[promise].st,
                                   val |-> heap[promise].val])]_vars

\* a continuation attached before resolve(v) and one attached after it have
\* both received v
DeferredContinuationRunsLaterWitness ==
    /\ firstCall.st = "fulfilled" /\ firstCall.before >= 1
    /\ attached > firstCall.before
    /\ Continuations = 1..attached
    /\ \A i \in 1..Len(seen) : seen[i].val = firstCall.val

(***************************************************************************)
(* Properties of Barrier (under SpecBarrier).                              *)
(***************************************************************************)
AggregatesOf(kind) == {g \in 1..Len(aggs) : aggs[g].kind = kind}
Slot(i) == heap[promises[i]]
SlotOf(p) == CHOOSE i \in 1..Len(promises) : promises[i] = p
Rejected == SelectSeq(order, LAMBDA p : heap[p].st = "rejected")
FirstAt(g, states) ==
    promises[CHOOSE i \in 1..aggs[g].n :
                 /\ aggs[g].snap[i] \in states
                 /\ \A j \in 1..(i - 1) : aggs[g].snap[j] \notin states]

\* C1: the future of all() fulfills with the values given to the slots, in
\* index order, whatever the order of the resolve calls and whether all()
\* came before or after them; it does not fulfill while a slot is pending,
\* and it has fulfilled once the queue is drained after every slot was
\* given a plain value.
AllFulfillsInIndexOrder ==
    \A g \in AggregatesOf("all") :
        LET r == heap[aggs[g].p]
        IN /\ r.st = "fulfilled" =>
                 /\ \A i \in 1..Len(promises) : Slot(i).st = "fulfilled"
                 /\ r.val = Array(given)
           /\ (queue = <<>> /\ \A i \in 1..Len(promises) : given[i].t = "value")
                 => r.st = "fulfilled"

\* the slots resolved in another order than the index order, after all()
AllFulfillsInIndexOrderWitness ==
    \E g \in AggregatesOf("all") :
        /\ heap[aggs[g].p].st = "fulfilled"
        /\ length.t = "number" /\ length.n >= 2
        /\ order[1] # promises[1]
        /\ \A i \in 1..Len(promises) : aggs[g].snap[i] = "pending"

\* the slot whose rejection all() takes: the lowest rejected slot at the
\* call if there is one, else the first slot to reject
AllWinner(g) ==
    IF \E i \in 1..aggs[g].n : aggs[g].snap[i] = "rejected"
    THEN FirstAt(g, {"rejected"})
    ELSE Rejected[1]

\* C2 (as amended): once a slot has rejected, the future of all() rejects
\* with the error of a rejected slot, unchanged: that of the first slot to
\* reject when no slot had rejected at the time all() was called, and else
\* that of the lowest-index slot that had rejected at the time of the call;
\* how the other slots settle afterwards changes nothing.
AllRejectsWithRegisteredError ==
    \A g \in AggregatesOf("all") :
        LET r == heap[aggs[g].p]
        IN /\ r.st = "rejected" =>
                 /\ Rejected # <<>>
                 /\ r.val = heap[AllWinner(g)].val
                 /\ r.val = given[SlotOf(AllWinner(g))].a[1]
           /\ (queue = <<>> /\ Rejected # <<>>) => r.st = "rejected"

\* all() was called when two slots had rejected, the higher one first
AllRejectsWithRegisteredErrorWitness ==
    \E g \in AggregatesOf("all") :
        /\ heap[aggs[g].p].st = "rejected"
        /\ Len(Rejected) >= 2
        /\ Rejected[1] # AllWinner(g)

\* C2 (as stated): when the first slot to settle is a rejection, all()
\* rejects with that error, however the other slots settle afterwards.
AllRejectsWithFirstRejection ==
    \A g \in AggregatesOf("all") :
        (queue = <<>> /\ order # <<>> /\ heap[order[1]].st = "rejected")
            => /\ heap[aggs[g].p].st = "rejected"
               /\ heap[aggs[g].p].val = heap[order[1]].val

\* the slot whose outcome race() takes: the lowest settled slot at the call
\* if there is one, else the first slot to settle
RaceWinner(g) ==
    IF \E i \in 1..aggs[g].n : aggs[g].snap[i] # "pending"
    THEN FirstAt(g, {"fulfilled", "rejected"})
    ELSE order[1]

\* C3 (as amended): the future of race() adopts the outcome of one slot and
\* keeps it: that of the first slot to settle when no slot had settled at
\* the time race() was called, and else that of the lowest-index slot that
\* had settled at the time of the call; a slot that settles later never
\* changes it.
RaceAdoptsRegisteredOutcome ==
    \A g \in AggregatesOf("race") :
        LET r == heap[aggs[g].p]
        IN /\ r.st # "pending" =>
                 /\ order # <<>>
                 /\ r.st = heap[RaceWinner(g)].st
                 /\ r.val = heap[RaceWinner(g)].val
           /\ (queue = <<>> /\ order # <<>>) => r.st # "pending"

\* race() was called when two slots had settled, the higher one first
RaceAdoptsRegisteredOutcomeWitness ==
    \E g \in AggregatesOf("race") :
        /\ heap[aggs[g].p].st # "pending"
        /\ Len(order) >= 2
        /\ order[1] # RaceWinner(g)

\* C3 (as stated): race() adopts the outcome of the slot that settled first
\* in time, whether race() is called before or after the resolve calls.
RaceAdoptsFirstSettled ==
    \A g \in AggregatesOf("race") :
        (queue = <<>> /\ order # <<>>)
            => /\ heap[aggs[g].p].st = heap[order[1]].st
               /\ heap[aggs[g].p].val = heap[order[1]].val

(***************************************************************************)
(* Properties of PromiseSynch (under SpecSynch).  Ticket k is that of the  *)
(* future futures[k + 1].                                                  *)
(***************************************************************************)
Future(k) == heap[futures[k + 1]]
Tickets == 0..(Len(futures) - 1)
Keys == {cache[i].key : i \in 1..Len(cache)}
EvictionQueued(k) ==
    \E i \in 1..Len(queue) :
        queue[i].type = "reaction" /\ queue[i].h.kind = "finally" /\ queue[i].h.a = k
SnapshotSettled(g) ==
    \A i \in 1..aggs[g].n : Future(aggs[g].keys[i]).st # "pending"

\* C4: the ticket of a future that is still pending is never removed, and
\* once a future has settled and the scheduler has run its continuations
\* its ticket is gone: after add(f1), add(f2) and the settlement of f1 the
\* mapping holds exactly the ticket of f2.
SettledTicketsEvicted ==
    \A k \in Tickets :
        /\ Future(k).st = "pending" => k \in Keys
        /\ (queue = <<>> /\ Future(k).st # "pending") => k \notin Keys

\* add(f1), add(f2), f1 settled later and its continuations run: only the
\* ticket of f2 is left
SettledTicketsEvictedWitness ==
    /\ Len(futures) = 2 /\ ncalls = 3
    /\ Future(0).st # "pending" /\ Future(1).st = "pending"
    /\ queue = <<>>
    /\ Keys = {1}

\* C5 (as amended): a ticket is in the mapping if and only if its future is
\* pending or has settled and the eviction continuation queued for it has
\* not run yet: removal follows settlement on a later turn of the
\* scheduler, it is not one step with it.
TicketPresentUntilEvicted ==
    \A k \in Tickets :
        k \in Keys <=> (Future(k).st = "pending" \/ EvictionQueued(k))

\* one future settled and evicted, another settled and not evicted yet
TicketPresentUntilEvictedWitness ==
    /\ \E k \in Tickets : Future(k).st # "pending" /\ k \in Keys
    /\ \E k \in Tickets : Future(k).st # "pending" /\ k \notin Keys

\* C5 (as stated): a ticket is in the mapping if and only if its future has
\* not settled yet.
TicketPresentIffPending ==
    \A k \in Tickets : k \in Keys <=> Future(k).st = "pending"

\* C6: allSettled waits for the futures in the registry at the call, and
\* for no other: its promise fulfills only once all of them have settled,
\* with one outcome record each, and it has fulfilled once they have
\* settled and the queue is drained, whatever was added after the call.
AllSettledIsSnapshot ==
    \A g \in AggregatesOf("allSettled") :
        LET r == heap[aggs[g].p]
        IN /\ r.st = "fulfilled" => SnapshotSettled(g) /\ Len(r.val.a) = aggs[g].n
           /\ (queue = <<>> /\ SnapshotSettled(g)) => r.st = "fulfilled"

\* fulfilled for a registered future while a future added later is pending
AllSettledIsSnapshotWitness ==
    \E g \in AggregatesOf("allSettled") :
        /\ heap[aggs[g].p].st = "fulfilled"
        /\ aggs[g].n >= 1
        /\ \E k \in Tickets :
               /\ Future(k).st = "pending"
               /\ \A i \in 1..aggs[g].n : aggs[g].keys[i] # k

\* C7: the promise of allSettled never rejects; it fulfills with one
\* outcome record per outstanding future, in the order the futures were
\* added, each tagged fulfilled or rejected and carrying the value or the
\* error of the future that was passed to add.
AllSettledReportsOutcomes ==
    \A g \in AggregatesOf("allSettled") :
        LET a == aggs[g]
            r == heap[a.p]
        IN /\ r.st # "rejected"
           /\ \A i, j \in 1..a.n : i < j => a.keys[i] < a.keys[j]
           /\ r.st = "fulfilled" =>
                 r.val = Array([i \in 1..a.n |->
                                  Outcome(Future(a.keys[i]).st, Future(a.keys[i]).val)])

\* a rejected and a fulfilled future reported together
AllSettledReportsOutcomesWitness ==
    \E g \in AggregatesOf("allSettled") :
        /\ heap[aggs[g].p].st = "fulfilled"
        /\ \E i, j \in 1..aggs[g].n :
               /\ heap[aggs[g].p].val.a[i].t = "rejected"
               /\ heap[aggs[g].p].val.a[j].t = "fulfilled"

\* C8: an onsettled function passed to allSettled is called only after
\* every future of the snapshot has settled, with the outcome sequence, and
\* what it does decides the returned promise: its return value fulfills it,
\* the promise it returns is adopted, what it throws rejects it.
OnSettledDecidesOutcome ==
    \A c \in 1..Len(calls) :
        calls[c].ons # "none" =>
            LET g == calls[c].agg
                r == heap[aggs[g].p]
                t == heap[calls[c].ret]
                ran == {i \in 1..Len(seen) : seen[i].k = g}
            IN /\ \A i \in ran :
                     /\ SnapshotSettled(g)
                     /\ r.st = "fulfilled" /\ seen[i].val = r.val
               /\ Cardinality(ran) <= 1
               /\ t.st # "pending" =>
                     /\ ran # {}
                     /\ t.st = OnSettledResult(calls[c].ons).st
                     /\ t.val = OnSettledResult(calls[c].ons).val
               /\ (queue = <<>> /\ SnapshotSettled(g)) => t.st # "pending"

\* onsettled has thrown after a registered future settled
OnSettledDecidesOutcomeWitness ==
    \E c \in 1..Len(calls) :
        /\ calls[c].ons = "throw"
        /\ aggs[calls[c].agg].n >= 1
        /\ heap[calls[c].ret].st = "rejected"

(***************************************************************************)
(* Barrier: construction and argument validation                           *)
(***************************************************************************)
Constructed == length # Unset
Slots == 1..Len(promises)
\* resolve(i - 1, v) called in the present state, v a plain value
ResolveOf(i) == ResolveCall(World, resolveFunctions, Num(i - 1), Prim(0))
NotANumber(x) == x.t # "number"
Malformed(x) == NotANumber(x) \/ x.n < 0

\* C11: constructing a Barrier with a non-negative integer n, 0 included,
\* succeeds and keeps n; the barrier has exactly n slots, all pending when
\* the constructor returns; and resolve(i, v), 0 <= i < n, raises nothing,
\* fulfills slot i with v if resolve(i, ...) was not called before, and
\* changes no other slot.
BarrierHasIndependentSlots ==
    /\ (last.op = "constructor" /\ last.arg.t = "number" /\ last.arg.n >= 0)
           => /\ last.raised = "none"
              /\ length = last.arg
              /\ \A i \in Slots : Slot(i) = PendingCell
    /\ (Constructed /\ length.t = "number")
           => /\ Len(promises) = length.n
              /\ \A i, j \in Slots : promises[i] = promises[j] => i = j
              /\ \A i \in Slots :
                     /\ ResolveOf(i).raised = "none"
                     /\ given[i] = Unset
                            => /\ ResolveOf(i).w.heap[promises[i]].st = "fulfilled"
                               /\ ResolveOf(i).w.heap[promises[i]].val = Prim(0)
                     /\ \A j \in Slots \ {i} :
                            ResolveOf(i).w.heap[promises[j]] = Slot(j)

BarrierHasIndependentSlotsWitness ==
    /\ length = Num(2)
    /\ last.op = "resolve" /\ last.arg = Num(1) /\ last.raised = "none"
    /\ Slot(1).st = "pending"
    /\ Slot(2).st = "fulfilled"

\* C12: a constructor call with a length that is missing, no number or
\* negative raises RangeError "Invalid length" and constructs no barrier.
InvalidLengthRejected ==
    (last.op = "constructor" /\ Malformed(last.arg))
        => last.raised = "RangeError: Invalid length" /\ ~Constructed

\* C13: a resolve call with an index that is missing, no number or negative
\* raises RangeError "Invalid index" and changes no slot; index 0 does not
\* raise that error.
InvalidIndexRejected ==
    [][/\ (last'.op = "resolve" /\ Malformed(last'.arg))
           => /\ last'.raised = "RangeError: Invalid index"
              /\ \A i \in Slots : Slot(i)' = Slot(i)
       /\ (last'.op = "resolve" /\ last'.arg = Num(0))
           => last'.raised # "RangeError: Invalid index"]_vars

\* C14: a resolve call with a number index >= the number of slots raises an
\* error in the caller, and the step changes no slot, no promise that
\* existed, no aggregate of all() or race() and queues no job.
ResolveOutOfRangeFailsInCaller ==
    [][(/\ last'.op = "resolve"
        /\ last'.arg.t = "number"
        /\ last'.arg.n >= Len(promises))
           => /\ last'.raised # "none"
              /\ \A p \in 1..Len(heap) : heap'[p] = heap[p]
              /\ \A p \in (Len(heap) + 1)..Len(heap') : heap'[p].rx = <<>>
              /\ aggs' = aggs
              /\ queue' = queue
              /\ order' = order]_vars

ResolveOutOfRangeFailsInCallerWitness ==
    /\ last.op = "resolve" /\ last.arg = Num(Len(promises))
    /\ last.raised = "TypeError"
    /\ Len(promises) = 2
    /\ Slot(1).st = "fulfilled" /\ Slot(2).st = "pending"
    /\ AggregatesOf("all") # {} /\ AggregatesOf("race") # {}

(***************************************************************************)
(* PromiseSynch: tickets                                                   *)
(***************************************************************************)
\* the evictions of ticket t in a job queue q, and among the reactions rx
\* of a promise
EvictionIn(q, t) ==
    \E i \in 1..Len(q) :
        q[i].type = "reaction" /\ q[i].h.kind = "finally" /\ q[i].h.a = t
EvictionAmong(rx, t) ==
    \E i \in 1..Len(rx) : rx[i].kind = "finally" /\ rx[i].a = t

\* C15: the k-th call of add (from 0) takes ticket k: the counter is k before
\* and k + 1 after, ticket k was in the map at no earlier time (every ticket
\* of the map is below the counter), the call adds exactly the entry of
\* ticket k, and the eviction it attaches removes ticket k; tickets evicted
\* before are not given again.
TicketsAreMonotonic ==
    [][Len(futures') = Len(futures) + 1
           => /\ index = Len(futures)
              /\ index' = index + 1
              /\ \A t \in Keys : t < index
              /\ Keys' = Keys \cup {index}
              /\ Len(cache') = Len(cache) + 1
              /\ cache'[Len(cache')].key = index
              /\ \/ EvictionIn(queue', index)
                 \/ EvictionAmong(heap'[futures'[index + 1]].rx, index)]_vars

TicketsAreMonotonicWitness ==
    /\ Len(futures) = 2
    /\ index = 2
    /\ Keys = {1}
    /\ Future(0).st # "pending" /\ Future(1).st = "pending"

(***************************************************************************)
(* Barrier: what the calls leave alone                                     *)
(***************************************************************************)
\* C16: once a Barrier is constructed no step, whether a call that returns,
\* a call that throws or a job, changes its length, its slot promises or its
\* resolve functions; and when the length n is a number there are n of each.
BarrierLengthIsFixed ==
    [][/\ Constructed
           => /\ length' = length
              /\ promises' = promises
              /\ resolveFunctions' = resolveFunctions
       /\ (Constructed' /\ length'.t = "number")
           => /\ Len(promises') = length'.n
              /\ Len(resolveFunctions') = length'.n]_vars

BarrierLengthIsFixedWitness ==
    /\ length = Num(2)
    /\ Len(promises) = 2 /\ Len(resolveFunctions) = 2
    /\ last.op = "resolve" /\ last.raised = "RangeError: Invalid index"
    /\ Slot(1).st = "fulfilled"
    /\ AggregatesOf("all") # {}

\* the slot a returning resolve call is for: index and "index" name slot index + 1
Resolved(i) ==
    last.op = "resolve" /\ last.raised = "none" /\ last.arg.n + 1 = i

\* C17: a slot is pending, and not resolved, as long as resolve was not
\* called with its index; a resolve call with an index in range raises
\* nothing and changes no other slot; and a resolve call for a slot that
\* resolve was called for before changes no promise that existed, no
\* aggregate of all() or race(), and queues no job.
SlotsSettleOnceAndAlone ==
    [][/\ \A i \in 1..Len(promises') :
              given'[i] = Unset => Slot(i)'.st = "pending" /\ ~Slot(i)'.res
       /\ \A i \in Slots :
              (last'.op = "resolve" /\ last'.arg \in {Num(i - 1), NumStr(i - 1)})
                  => /\ last'.raised = "none"
                     /\ \A j \in Slots \ {i} : Slot(j)' = Slot(j)
                     /\ given[i] # Unset
                            => /\ \A p \in 1..Len(heap) : heap'[p] = heap[p]
                               /\ aggs' = aggs
                               /\ queue' = queue
                               /\ order' = order
                               /\ given' = given]_vars

\* resolve(0, w) was called again after slot 0 had fulfilled, all() and
\* race() having been called before
SlotsSettleOnceAndAloneWitness ==
    /\ Constructed /\ Len(promises) = 2
    /\ Resolved(1)
    /\ given[1].t = "value" /\ given[1] # Prim(ncalls)
    /\ Slot(1).st = "fulfilled" /\ Slot(1).val = given[1]
    /\ Slot(2).st = "pending"
    /\ AggregatesOf("race") # {}

(***************************************************************************)
(* PromiseSynch: eviction and allSettled                                   *)
(***************************************************************************)
\* the tickets whose entries the c-th call of allSettled iterated
TicketsAtCall(c) ==
    {aggs[calls[c].agg].keys[i] : i \in 1..aggs[calls[c].agg].n}

\* C18: when the promise of Promise.allSettled made by a call of allSettled
\* is fulfilled, and so whenever the promise the call returned is fulfilled,
\* no ticket that was in the map at the call is in the map any more.
AllSettledFulfillsAfterEviction ==
    \A c \in 1..Len(calls) :
        (\/ heap[aggs[calls[c].agg].p].st = "fulfilled"
         \/ heap[calls[c].ret].st = "fulfilled")
            => TicketsAtCall(c) \cap Keys = {}

\* allSettled was called with two tickets in the map and its promise has
\* fulfilled
AllSettledFulfillsAfterEvictionWitness ==
    \E c \in 1..Len(calls) :
        /\ TicketsAtCall(c) = {0, 1}
        /\ heap[calls[c].ret].st = "fulfilled"
        /\ Keys = {}

AllFuturesSettled == \A k \in Tickets : Future(k).st # "pending"

\* C19: add called with a future that is already settled returns with its
\* ticket in the map and the eviction of that ticket queued, so the ticket
\* is removed by a later job, after the insertion; and if from some time on
\* every future passed to add is settled, then from some time on the map is
\* empty.
SettledFutureDoesNotLeak ==
    /\ [][(/\ Len(futures') = Len(futures) + 1
           /\ heap'[futures'[index + 1]].st # "pending")
              => /\ index \in Keys'
                 /\ EvictionIn(queue', index)
                 /\ ~EvictionIn(queue, index)]_vars
    /\ (<>[]AllFuturesSettled => <>[](cache = <<>>))

\* a future that was settled when it was passed to add: evicted, and the
\* map is empty again
SettledFutureDoesNotLeakWitness ==
    /\ Len(futures) = 2
    /\ ncalls = 2
    /\ AllFuturesSettled
    /\ queue = <<>>
    /\ cache = <<>>

(***************************************************************************)
(* Barrier of no slot                                                      *)
(***************************************************************************)
\* C20: for a Barrier without slots, the promise of every all() is
\* fulfilled with the empty array from the moment all() returns, and the
\* promise of every race() is pending in every state, with no reaction that
\* could settle it queued.
EmptyBarrierAllFulfillsRaceHangs ==
    (Constructed /\ Len(promises) = 0)
        => /\ \A g \in AggregatesOf("all") :
                  /\ heap[aggs[g].p].st = "fulfilled"
                  /\ heap[aggs[g].p].val = Array(<<>>)
           /\ \A g \in AggregatesOf("race") :
                  /\ heap[aggs[g].p].st = "pending"
                  /\ ~heap[aggs[g].p].res
                  /\ \A i \in 1..Len(queue) : queue[i].h.a # g

EmptyBarrierAllFulfillsRaceHangsWitness ==
    /\ length = Num(0)
    /\ AggregatesOf("all") # {}
    /\ AggregatesOf("race") # {}
    /\ queue = <<>>
    /\ ncalls > 2
===============================================================================
